---- MODULE Spec2Model ----
(***************************************************************************)
(* X.509 certificate semantics of src/cert/x509cert/x509cert.cpp and the   *)
(* byte-buffer comparison of src/alloc/secmem.h.                           *)
(*                                                                         *)
(* A certificate object is built once by force_decode from a signed-object *)
(* envelope (signature algorithm, signed body, signature) and is then only *)
(* queried.  Text (std::string) is a sequence of character codes, a byte   *)
(* buffer (MemoryRegion<byte>) a sequence of bytes, and a Data_Store a     *)
(* function from key to the sequence of values stored under it.            *)
(***************************************************************************)
EXTENDS Integers, Sequences, FiniteSets, TLC

VARIABLES certs, given, result, regions, memcall

vars == <<certs, given, result, regions, memcall>>

(***************************************************************************)
(* Bounds of the model                                                     *)
(***************************************************************************)
\* largest version field value an input carries (3 is the first invalid one)
MaxVersion == 3
\* largest explicit path length constraint an input carries
MaxPathLimit == 1
\* longest signature value, in bytes
MaxSigLen == 2
\* longest DNS / common name entry of a certificate
MaxCnLen == 3
\* longest name asked of matches_dns_name
MaxNameLen == 5
\* largest size a buffer is resized to
MaxSize == 3
\* longest array given to set and append
MaxData == 2

(***************************************************************************)
(* Text                                                                    *)
(***************************************************************************)
\* '*' and '.', the characters cert_subject_dns_match tests for
Star == 42
Dot == 46

Min(x, y) == IF x < y THEN x ELSE y

\* all sequences over alphabet of length at most n
Strs(alphabet, n) == UNION {[1..k -> alphabet] : k \in 0..n}

\* s[from..], std::string::substr(from - 1, npos)
Substr(s, from) == SubSeq(s, from, Len(s))

RECURSIVE Concat(_)
\* the concatenation of a sequence of texts (successive out << x)
Concat(ss) == IF ss = <<>> THEN <<>> ELSE Head(ss) \o Concat(Tail(ss))

\* std::string operator<: the first differing character decides, a proper
\* prefix is before the longer text
LexLess(s, t) ==
  LET differ == {i \in 1..Min(Len(s), Len(t)) : s[i] # t[i]}
  IN IF differ = {} THEN Len(s) < Len(t)
     ELSE LET first == CHOOSE i \in differ : \A j \in differ : i <= j
          IN s[first] < t[first]

RECURSIVE U32ToStr(_)
\* std::to_string of an unsigned value: its decimal digits
U32ToStr(n) == IF n < 10 THEN <<48 + n>> ELSE U32ToStr(n \div 10) \o <<48 + (n % 10)>>

RECURSIVE StrToU32(_)
\* to_u32bit: the value of a text of decimal digits
StrToU32(s) ==
  IF s = <<>> THEN 0
  ELSE StrToU32(SubSeq(s, 1, Len(s) - 1)) * 10 + (s[Len(s)] - 48)

HexDigit(d) == IF d < 10 THEN 48 + d ELSE 55 + d
HexValue(c) == IF c < 58 THEN c - 48 ELSE c - 55

RECURSIVE hex_encode(_)
\* hex_encode: two upper-case hexadecimal digits per byte
hex_encode(bytes) ==
  IF bytes = <<>> THEN <<>>
  ELSE <<HexDigit(Head(bytes) \div 16), HexDigit(Head(bytes) % 16)>> \o hex_encode(Tail(bytes))

RECURSIVE hex_decode(_)
hex_decode(s) ==
  IF Len(s) < 2 THEN <<>>
  ELSE <<HexValue(s[1]) * 16 + HexValue(s[2])>> \o hex_decode(SubSeq(s, 3, Len(s)))

RECURSIVE BitAnd(_, _)
\* x & y on unsigned values
BitAnd(x, y) ==
  IF x = 0 \/ y = 0 THEN 0
  ELSE (x % 2) * (y % 2) + 2 * BitAnd(x \div 2, y \div 2)

(***************************************************************************)
(* The fixed texts of X509_Certificate::to_string                          *)
(***************************************************************************)
\* 'Subject '
L_Subject ==
  <<83, 117, 98, 106, 101, 99, 116, 32>>
\* 'Issuer '
L_Issuer ==
  <<73, 115, 115, 117, 101, 114, 32>>
\* ':'
L_Colon ==
  <<58>>
\* ' '
L_Space ==
  <<32>>
\* '\n'
L_NL ==
  <<10>>
\* 'Version: '
L_Version ==
  <<86, 101, 114, 115, 105, 111, 110, 58, 32>>
\* 'Not valid before: '
L_NotBefore ==
  <<78, 111, 116, 32, 118, 97, 108, 105, 100, 32, 98, 101, 102, 111, 114, 101, 58, 32>>
\* 'Not valid after: '
L_NotAfter ==
  <<78, 111, 116, 32, 118, 97, 108, 105, 100, 32, 97, 102, 116, 101, 114, 58, 32>>
\* 'Constraints:\n'
L_Constraints ==
  <<67, 111, 110, 115, 116, 114, 97, 105, 110, 116, 115, 58, 10>>
\* ' None\n'
L_None ==
  <<32, 78, 111, 110, 101, 10>>
\* '   Digital Signature\n'
L_DigitalSignature ==
  <<32, 32, 32, 68, 105, 103, 105, 116, 97, 108, 32, 83, 105, 103, 110, 97, 116, 117, 114, 101, 10>>
\* '   Non-Repuidation\n'
L_NonRepudiation ==
  <<32, 32, 32, 78, 111, 110, 45, 82, 101, 112, 117, 105, 100, 97, 116, 105, 111, 110, 10>>
\* '   Key Encipherment\n'
L_KeyEncipherment ==
  <<32, 32, 32, 75, 101, 121, 32, 69, 110, 99, 105, 112, 104, 101, 114, 109, 101, 110, 116, 10>>
\* '   Data Encipherment\n'
L_DataEncipherment ==
  <<32, 32, 32, 68, 97, 116, 97, 32, 69, 110, 99, 105, 112, 104, 101, 114, 109, 101, 110, 116, 10>>
\* '   Key Agreement\n'
L_KeyAgreement ==
  <<32, 32, 32, 75, 101, 121, 32, 65, 103, 114, 101, 101, 109, 101, 110, 116, 10>>
\* '   Cert Sign\n'
L_CertSign ==
  <<32, 32, 32, 67, 101, 114, 116, 32, 83, 105, 103, 110, 10>>
\* '   CRL Sign\n'
L_CRLSign ==
  <<32, 32, 32, 67, 82, 76, 32, 83, 105, 103, 110, 10>>
\* 'Policies: \n'
L_Policies ==
  <<80, 111, 108, 105, 99, 105, 101, 115, 58, 32, 10>>
\* '   '
L_Indent ==
  <<32, 32, 32>>
\* 'Extended Constraints:\n'
L_ExtConstraints ==
  <<69, 120, 116, 101, 110, 100, 101, 100, 32, 67, 111, 110, 115, 116, 114, 97, 105, 110, 116, 115, 58, 10>>
\* 'Signature algorithm: '
L_SigAlgo ==
  <<83, 105, 103, 110, 97, 116, 117, 114, 101, 32, 97, 108, 103, 111, 114, 105, 116, 104, 109, 58, 32>>
\* 'Serial number: '
L_Serial ==
  <<83, 101, 114, 105, 97, 108, 32, 110, 117, 109, 98, 101, 114, 58, 32>>
\* 'Authority keyid: '
L_AuthKeyid ==
  <<65, 117, 116, 104, 111, 114, 105, 116, 121, 32, 107, 101, 121, 105, 100, 58, 32>>
\* 'Subject keyid: '
L_SubjKeyid ==
  <<83, 117, 98, 106, 101, 99, 116, 32, 107, 101, 121, 105, 100, 58, 32>>
\* 'Public Key:\n'
L_PublicKey ==
  <<80, 117, 98, 108, 105, 99, 32, 75, 101, 121, 58, 10>>

\* the text of a dn_fields[] entry
FieldText(f) ==
  CASE f = "Name" -> <<78, 97, 109, 101>>
    [] f = "Email" -> <<69, 109, 97, 105, 108>>
    [] f = "Organization" -> <<79, 114, 103, 97, 110, 105, 122, 97, 116, 105, 111, 110>>
    [] f = "Organizational Unit" -> <<79, 114, 103, 97, 110, 105, 122, 97, 116, 105, 111, 110, 97, 108, 32, 85, 110, 105, 116>>
    [] f = "Locality" -> <<76, 111, 99, 97, 108, 105, 116, 121>>
    [] f = "State" -> <<83, 116, 97, 116, 101>>
    [] f = "Country" -> <<67, 111, 117, 110, 116, 114, 121>>
    [] f = "IP" -> <<73, 80>>
    [] f = "DNS" -> <<68, 78, 83>>
    [] f = "URI" -> <<85, 82, 73>>
    [] f = "PKIX.XMPPAddr" -> <<80, 75, 73, 88, 46, 88, 77, 80, 80, 65, 100, 100, 114>>

(***************************************************************************)
(* Data_Store: the multimap of a certificate's attributes.  A store is a   *)
(* function from key to the values added under it, in insertion order.     *)
(***************************************************************************)
\* object identifiers no extension decoder is registered for
UnknownOIDs == {"1.3.6.1.4.1.99999.1"}

Keys ==
  { "X520.CommonName", "X520.Country", "X520.Organization",
    "X520.OrganizationalUnit", "X520.Locality", "X520.State",
    "RFC822", "IP", "DNS", "URI", "PKIX.XMPPAddr",
    "X509v3.BasicConstraints.is_ca", "X509v3.BasicConstraints.path_constraint",
    "X509v3.KeyUsage", "X509v3.ExtendedKeyUsage", "X509v3.CertificatePolicies",
    "X509v3.SubjectKeyIdentifier", "X509v3.AuthorityKeyIdentifier",
    "X509.Certificate.version", "X509.Certificate.serial",
    "X509.Certificate.start", "X509.Certificate.end",
    "X509.Certificate.v2.key_id", "X509.Certificate.public_key" } \cup UnknownOIDs

EmptyStore == [k \in Keys |-> <<>>]

\* Data_Store::add(key, string)
add(store, key, val) == [store EXCEPT ![key] = Append(@, val)]

\* Data_Store::add(key, u32bit): the value is stored as its decimal text
add_u32bit(store, key, n) == add(store, key, U32ToStr(n))

\* Data_Store::add(key, MemoryRegion<byte>): the bytes are stored hex encoded
add_bytes(store, key, bytes) == add(store, key, hex_encode(bytes))

\* Data_Store::add(multimap): every pair of the multimap, in its order
add_all(store, contents) == [k \in Keys |-> store[k] \o contents[k]]

\* Data_Store::get
get(store, key) == store[key]

\* Data_Store::has_value
has_value(store, key) == store[key] # <<>>

\* Data_Store::get1(key)
get1(store, key) == store[key][1]

\* Data_Store::get1_u32bit(key, default)
get1_u32bit(store, key, default) ==
  IF store[key] = <<>> THEN default ELSE StrToU32(store[key][1])

\* Data_Store::get1_memvec
get1_memvec(store, key) ==
  IF store[key] = <<>> THEN <<>> ELSE hex_decode(store[key][1])

(***************************************************************************)
(* X509_DN: a sequence of (key, value) attribute pairs                     *)
(***************************************************************************)
\* X509_DN::contents: the values of each attribute type
dn_contents(dn) ==
  [k \in Keys |->
     LET pick[i \in 0..Len(dn)] ==
           IF i = 0 THEN <<>>
           ELSE IF dn[i].key = k THEN Append(pick[i - 1], dn[i].value)
           ELSE pick[i - 1]
     IN pick[Len(dn)]]

\* operator==(X509_DN, X509_DN): the same pairs, each as often, in any order
dn_equal(d1, d2) ==
  /\ Len(d1) = Len(d2)
  /\ \A p \in {d1[i] : i \in 1..Len(d1)} \cup {d2[i] : i \in 1..Len(d2)} :
       Cardinality({i \in 1..Len(d1) : d1[i] = p}) =
       Cardinality({i \in 1..Len(d2) : d2[i] = p})

\* X509_DN::deref_info_field: a friendly field name to its store key
deref_info_field(what) ==
  CASE what = "Name" -> "X520.CommonName"
    [] what = "Email" -> "RFC822"
    [] what = "Organization" -> "X520.Organization"
    [] what = "Organizational Unit" -> "X520.OrganizationalUnit"
    [] what = "Locality" -> "X520.Locality"
    [] what = "State" -> "X520.State"
    [] what = "Country" -> "X520.Country"
    [] OTHER -> what

(***************************************************************************)
(* ASN.1 tags and the values of the library's enumerations                 *)
(***************************************************************************)
SEQUENCE == 16
BIT_STRING == 3
CONSTRUCTED == 32
CONTEXT_SPECIFIC == 128
NO_OBJECT == 65280

\* Key_Constraints: one bit per usage, and the value for "none recorded"
DIGITAL_SIGNATURE == 64
NON_REPUDIATION == 32
KEY_ENCIPHERMENT == 16
DATA_ENCIPHERMENT == 8
KEY_AGREEMENT == 4
KEY_CERT_SIGN == 2
CRL_SIGN == 1
NO_CONSTRAINTS == 128

\* Cert_Extension::NO_CERT_PATH_LIMIT, above every path length an
\* extension records
NO_CERT_PATH_LIMIT == 65535

(***************************************************************************)
(* Extensions: the decoded v3 extensions block.  An extension is a record  *)
(* oid, critical and the fields of its kind (the others hold defaults).    *)
(***************************************************************************)
Ext(oid, critical, is_ca, path, usage, names, value) ==
  [oid |-> oid, critical |-> critical, is_ca |-> is_ca, path |-> path,
   usage |-> usage, names |-> names, value |-> value]

\* Certificate_Extension::contents_to of one extension
ext_contents_to(e, si) ==
  CASE e.oid = "X509v3.BasicConstraints" ->
         LET s1 == add_u32bit(si.subject, "X509v3.BasicConstraints.is_ca",
                              IF e.is_ca THEN 1 ELSE 0)
         IN [subject |-> IF e.path = <<>> THEN s1
                         ELSE add_u32bit(s1, "X509v3.BasicConstraints.path_constraint",
                                         e.path[1]),
             issuer |-> si.issuer]
    [] e.oid = "X509v3.KeyUsage" ->
         [subject |-> add_u32bit(si.subject, "X509v3.KeyUsage", e.usage),
          issuer |-> si.issuer]
    [] e.oid = "X509v3.SubjectAlternativeName" ->
         [subject |-> [si.subject EXCEPT !["DNS"] = @ \o e.names],
          issuer |-> si.issuer]
    [] e.oid = "X509v3.AuthorityKeyIdentifier" ->
         [subject |-> si.subject,
          issuer |-> add_bytes(si.issuer, "X509v3.AuthorityKeyIdentifier", e.value)]
    [] OTHER ->
         \* an unrecognized extension: its criticality and raw value, under its OID
         [subject |-> add_bytes(add_u32bit(si.subject, e.oid,
                                           IF e.critical THEN 1 ELSE 0),
                                e.oid, e.value),
          issuer |-> si.issuer]

\* Extensions::contents_to(subject, issuer): every extension in order
contents_to(extensions, subject, issuer) ==
  LET step[i \in 0..Len(extensions)] ==
        IF i = 0 THEN [subject |-> subject, issuer |-> issuer]
        ELSE ext_contents_to(extensions[i], step[i - 1])
  IN step[Len(extensions)]

(***************************************************************************)
(* X509_Certificate                                                        *)
(***************************************************************************)
\* an object in construction or built: the members of X509_Object (sig_algo,
\* sig) and of X509_Certificate (self_signed, subject, issuer), and how the
\* constructor ended: "none" (not run), "ok", or the exception it threw
Cert(status, sig_algo, sig, self_signed, subject, issuer) ==
  [status |-> status, sig_algo |-> sig_algo, sig |-> sig,
   self_signed |-> self_signed, subject |-> subject, issuer |-> issuer]

\* decode_optional(version, ASN1_Tag(0), ...): an absent field decodes to 0
decoded_version(in) == IF in.version = <<>> THEN 0 ELSE in.version[1]

\* x509_version
x509_version(c) == get1_u32bit(c.subject, "X509.Certificate.version", 0) + 1

\* constraints
constraints(c) == get1_u32bit(c.subject, "X509v3.KeyUsage", NO_CONSTRAINTS)

\* is_CA_cert without the test for NO_CONSTRAINTS: a certificate with no key
\* usage extension is then never a CA
is_CA_cert_signing_only(c) ==
  IF get1_u32bit(c.subject, "X509v3.BasicConstraints.is_ca", 0) = 0 THEN FALSE
  ELSE BitAnd(constraints(c), KEY_CERT_SIGN) # 0

\* is_CA_cert
is_CA_cert(c) ==
  IF get1_u32bit(c.subject, "X509v3.BasicConstraints.is_ca", 0) = 0 THEN FALSE
  ELSE IF BitAnd(constraints(c), KEY_CERT_SIGN) # 0 \/ constraints(c) = NO_CONSTRAINTS
       THEN TRUE
  ELSE FALSE

\* path_limit
path_limit(c) == get1_u32bit(c.subject, "X509v3.BasicConstraints.path_constraint", 0)

\* PEM_Code::encode(ASN1::put_in_sequence(value), "PUBLIC KEY"): the text
\* envelope of the key, one text per key value
public_key_pem(value) == hex_encode(<<SEQUENCE + CONSTRUCTED>> \o value)

\* the default path limit with the version field, not the version, compared
\* with 3: every CA then gets NO_CERT_PATH_LIMIT
default_path_limit_by_field(c) ==
  IF is_CA_cert(c) /\ ~has_value(c.subject, "X509v3.BasicConstraints.path_constraint")
  THEN [c EXCEPT !.subject =
          add_u32bit(@, "X509v3.BasicConstraints.path_constraint",
                     IF x509_version(c) - 1 < 3 THEN NO_CERT_PATH_LIMIT ELSE 0)]
  ELSE c

\* the last step of force_decode: the default path limit of a CA
default_path_limit(c) ==
  IF is_CA_cert(c) /\ ~has_value(c.subject, "X509v3.BasicConstraints.path_constraint")
  THEN [c EXCEPT !.subject =
          add_u32bit(@, "X509v3.BasicConstraints.path_constraint",
                     IF x509_version(c) < 3 THEN NO_CERT_PATH_LIMIT ELSE 0)]
  ELSE c

\* the attributes force_decode adds after the extensions
add_certificate_fields(in, version, subject, issuer) ==
  [subject |->
     add(add_bytes(add(add(add_bytes(add_u32bit(subject,
       "X509.Certificate.version", version),
       "X509.Certificate.serial", <<in.serial>>),
       "X509.Certificate.start", in.start),
       "X509.Certificate.end", in.end_),
       "X509.Certificate.v2.key_id", in.v2_subject_key_id),
       "X509.Certificate.public_key", public_key_pem(in.public_key.value)),
   issuer |-> add_bytes(issuer, "X509.Certificate.v2.key_id", in.v2_issuer_key_id)]

\* the version test one too high: version field 3 is accepted
bad_version_above_3(version) == version > 3

\* force_decode: "Unknown X.509 cert version"
bad_version(version) == version > 2

\* the mismatch test on the OIDs alone
algorithm_mismatch_oid_only(in) == in.sig_algo.oid # in.sig_algo_inner.oid

\* force_decode: "Algorithm identifier mismatch" (AlgorithmIdentifier
\* operator!=: the OIDs or the parameters differ)
algorithm_mismatch(in) == in.sig_algo # in.sig_algo_inner

\* force_decode: "Unexpected tag for public key"
bad_public_key(public_key) ==
  public_key.type_tag # SEQUENCE \/ public_key.class_tag # CONSTRUCTED

\* the tag test on the type alone: any object of type 3 is an extensions block
is_extensions_by_type(obj) == obj.type_tag = 3

\* force_decode: the next object is the extensions block [3]
is_extensions(obj) ==
  obj.type_tag = 3 /\ obj.class_tag = CONSTRUCTED + CONTEXT_SPECIFIC

\* the block decoded into the local Extensions object and nothing written
apply_extensions_dropped(obj, subject, issuer) ==
  [subject |-> subject, issuer |-> issuer]

\* force_decode: the block is decoded into a local Extensions object, whose
\* contents go to the two stores before it is destroyed
apply_extensions(obj, subject, issuer) == contents_to(obj.value, subject, issuer)

\* force_decode, run by the constructors on a fresh object (self_signed =
\* false, both stores empty) whose sig_algo and sig X509_Object has set
force_decode(in) ==
  LET version == decoded_version(in)
      fresh(status) == Cert(status, in.sig_algo, in.sig, FALSE, EmptyStore, EmptyStore)
      self_signed == dn_equal(in.dn_subject, in.dn_issuer)
      s1 == add_all(EmptyStore, dn_contents(in.dn_subject))
      i1 == add_all(EmptyStore, dn_contents(in.dn_issuer))
      named(status) == Cert(status, in.sig_algo, in.sig, self_signed, s1, i1)
      obj == in.v3_exts_data
      x == IF is_extensions(obj) THEN apply_extensions(obj, s1, i1)
           ELSE [subject |-> s1, issuer |-> i1]
      f == add_certificate_fields(in, version, x.subject, x.issuer)
  IN IF bad_version(version) THEN fresh("Decoding_Error")
     ELSE IF algorithm_mismatch(in) THEN fresh("Decoding_Error")
     ELSE IF bad_public_key(in.public_key) THEN named("BER_Bad_Tag")
     \* BER_Decoder(...).decode(extensions).verify_end()
     ELSE IF is_extensions(obj) /\ obj.trailing THEN named("Decoding_Error")
     ELSE IF ~is_extensions(obj) /\ obj.type_tag # NO_OBJECT THEN named("BER_Bad_Tag")
     ELSE IF in.more_items
          THEN Cert("Decoding_Error", in.sig_algo, in.sig, self_signed, x.subject, x.issuer)
     ELSE default_path_limit(
            Cert("ok", in.sig_algo, in.sig, self_signed, f.subject, f.issuer))

\* subject_info, issuer_info
subject_info(c, what) == get(c.subject, deref_info_field(what))
issuer_info(c, what) == get(c.issuer, deref_info_field(what))

\* start_time, end_time
start_time(c) == get1(c.subject, "X509.Certificate.start")
end_time(c) == get1(c.subject, "X509.Certificate.end")

\* OIDS::lookup: the registered name of an object identifier, or the
\* identifier itself when none is registered ("1.1" is registered as "RSA")
OIDS_lookup(oid) == IF oid = <<49, 46, 49>> THEN <<82, 83, 65>> ELSE oid

\* lookup_oids
lookup_oids(in) == [i \in 1..Len(in) |-> OIDS_lookup(in[i])]

\* ex_constraints, policies
ex_constraints(c) == lookup_oids(get(c.subject, "X509v3.ExtendedKeyUsage"))
policies(c) == lookup_oids(get(c.subject, "X509v3.CertificatePolicies"))

\* authority_key_id, subject_key_id, serial_number
authority_key_id(c) == get1_memvec(c.issuer, "X509v3.AuthorityKeyIdentifier")
subject_key_id(c) == get1_memvec(c.subject, "X509v3.SubjectKeyIdentifier")
serial_number(c) == get1_memvec(c.subject, "X509.Certificate.serial")

\* the wildcard test with >= for >: a name as long as the entry matches
wildcard_match_not_longer(name, cn) ==
  IF Len(cn) > 2 /\ cn[1] = Star /\ cn[2] = Dot /\ Len(name) >= Len(cn)
  THEN LET base == Substr(cn, 2)
       IN SubSeq(name, Len(name) - Len(base) + 1, Len(name)) = base
  ELSE FALSE

\* the wildcard test of cert_subject_dns_match on one entry cn
wildcard_match(name, cn) ==
  IF Len(cn) > 2 /\ cn[1] = Star /\ cn[2] = Dot /\ Len(name) > Len(cn)
  THEN LET base == Substr(cn, 2)
       IN SubSeq(name, Len(name) - Len(base) + 1, Len(name)) = base
  ELSE FALSE

\* cert_subject_dns_match: the loop over cert_names, from entry i on
RECURSIVE dns_match_from(_, _, _)
dns_match_from(name, cert_names, i) ==
  IF i > Len(cert_names) THEN FALSE
  ELSE IF cert_names[i] = name THEN TRUE
  ELSE IF wildcard_match(name, cert_names[i]) THEN TRUE
  ELSE dns_match_from(name, cert_names, i + 1)

cert_subject_dns_match(name, cert_names) == dns_match_from(name, cert_names, 1)

\* matches_dns_name
matches_dns_name(c, name) ==
  IF name = <<>> THEN FALSE
  ELSE IF cert_subject_dns_match(name, subject_info(c, "DNS")) THEN TRUE
  ELSE IF cert_subject_dns_match(name, subject_info(c, "Name")) THEN TRUE
  ELSE FALSE

(***************************************************************************)
(* MemoryRegion<byte> comparison (secmem.h)                                *)
(***************************************************************************)
\* MemoryRegion::operator==
MemoryRegion_eq(x, y) ==
  Len(x) = Len(y) /\ \A i \in 1..Len(x) : x[i] = y[i]

\* MemoryRegion::operator!=
MemoryRegion_ne(x, y) == ~MemoryRegion_eq(x, y)

\* operator< with the sizes compared the wrong way round after a common prefix
MemoryRegion_lt_longer_first(x, y) ==
  LET differ == {i \in 1..Min(Len(x), Len(y)) : x[i] # y[i]}
  IN IF differ = {} THEN Len(x) > Len(y)
     ELSE LET first == CHOOSE i \in differ : \A j \in differ : i <= j
          IN x[first] < y[first]

\* MemoryRegion::operator<: the loop over the first min_size elements, from
\* element i on
RECURSIVE MemoryRegion_lt_from(_, _, _)
MemoryRegion_lt_from(x, y, i) ==
  IF i > Min(Len(x), Len(y)) THEN Len(x) < Len(y)
  ELSE IF x[i] < y[i] THEN TRUE
  ELSE IF x[i] > y[i] THEN FALSE
  ELSE MemoryRegion_lt_from(x, y, i + 1)

MemoryRegion_lt(x, y) == MemoryRegion_lt_from(x, y, 1)

(***************************************************************************)
(* MemoryRegion<byte> as an object (secmem.h): buf holds the allocated     *)
(* elements, the first used of them are the contents                       *)
(***************************************************************************)
\* Allocator::allocate(n): a block of n elements, zero-filled
allocate(n) == [i \in 1..n |-> 0]

\* clear_mem(buf + from, count)
clear_mem(buf, from, count) ==
  [i \in 1..Len(buf) |-> IF i > from /\ i <= from + count THEN 0 ELSE buf[i]]

\* copy_mem(buf + off, in, n)
copy_mem(buf, off, in, n) ==
  [i \in 1..Len(buf) |-> IF i > off /\ i <= off + n THEN in[i - off] ELSE buf[i]]

\* MemoryRegion(): buf = 0, used = allocated = 0
EmptyRegion == [buf |-> <<>>, used |-> 0, allocated |-> 0]

\* the contents: the elements at the indices below size()
contents(m) == SubSeq(m.buf, 1, m.used)

\* resize without the clear_mem of the first branch
resize_without_clear(m, n) ==
  IF n <= m.allocated
  THEN [m EXCEPT !.used = n]
  ELSE [buf |-> copy_mem(allocate(n), 0, m.buf, m.used), used |-> n, allocated |-> n]

\* MemoryRegion<T>::resize
resize(m, n) ==
  IF n <= m.allocated
  THEN LET zap == Min(m.used, n)
       IN [m EXCEPT !.buf = clear_mem(m.buf, zap, m.allocated - zap), !.used = n]
  ELSE [buf |-> copy_mem(allocate(n), 0, m.buf, m.used), used |-> n, allocated |-> n]

\* copy(in, n)
copy(m, in, n) == [m EXCEPT !.buf = copy_mem(m.buf, 0, in, Min(n, m.used))]

\* set(in, n)
set(m, in) == copy(resize(m, Len(in)), in, Len(in))

\* append(data, n)
append(m, data) ==
  LET r == resize(m, m.used + Len(data))
  IN [r EXCEPT !.buf = copy_mem(r.buf, r.used - Len(data), data, Len(data))]

\* clear
clear(m) == resize(m, 0)

(***************************************************************************)
(* Rendering, equality and ordering                                        *)
(***************************************************************************)
dn_fields ==
  << "Name", "Email", "Organization", "Organizational Unit", "Locality",
     "State", "Country", "IP", "DNS", "URI", "PKIX.XMPPAddr" >>

\* " v1 v2 ..." of to_string's inner loops
spaced(vals) == Concat([j \in 1..Len(vals) |-> L_Space \o vals[j]])

\* the lines of to_string's two loops over dn_fields
dn_lines(label, c, of_subject) ==
  Concat([i \in 1..Len(dn_fields) |->
            LET vals == IF of_subject THEN subject_info(c, dn_fields[i])
                        ELSE issuer_info(c, dn_fields[i])
            IN IF vals = <<>> THEN <<>>
               ELSE label \o FieldText(dn_fields[i]) \o L_Colon \o spaced(vals) \o L_NL])

\* the "Constraints:" block of to_string
constraint_lines(k) ==
  IF k = NO_CONSTRAINTS THEN L_None
  ELSE (IF BitAnd(k, DIGITAL_SIGNATURE) # 0 THEN L_DigitalSignature ELSE <<>>)
    \o (IF BitAnd(k, NON_REPUDIATION) # 0 THEN L_NonRepudiation ELSE <<>>)
    \o (IF BitAnd(k, KEY_ENCIPHERMENT) # 0 THEN L_KeyEncipherment ELSE <<>>)
    \o (IF BitAnd(k, DATA_ENCIPHERMENT) # 0 THEN L_DataEncipherment ELSE <<>>)
    \o (IF BitAnd(k, KEY_AGREEMENT) # 0 THEN L_KeyAgreement ELSE <<>>)
    \o (IF BitAnd(k, KEY_CERT_SIGN) # 0 THEN L_CertSign ELSE <<>>)
    \o (IF BitAnd(k, CRL_SIGN) # 0 THEN L_CRLSign ELSE <<>>)

\* "   name\n" for each name
indented(names) == Concat([i \in 1..Len(names) |-> L_Indent \o names[i] \o L_NL])

\* to_string
to_string(c) ==
     dn_lines(L_Subject, c, TRUE)
  \o dn_lines(L_Issuer, c, FALSE)
  \o L_Version \o U32ToStr(x509_version(c)) \o L_NL
  \o L_NotBefore \o start_time(c) \o L_NL
  \o L_NotAfter \o end_time(c) \o L_NL
  \o L_Constraints \o constraint_lines(constraints(c))
  \o (IF Len(policies(c)) # 0 THEN L_Policies \o indented(policies(c)) ELSE <<>>)
  \o (IF Len(ex_constraints(c)) # 0
      THEN L_ExtConstraints \o indented(ex_constraints(c)) ELSE <<>>)
  \o L_SigAlgo \o OIDS_lookup(c.sig_algo.oid) \o L_NL
  \o L_Serial \o hex_encode(serial_number(c)) \o L_NL
  \o (IF Len(authority_key_id(c)) # 0
      THEN L_AuthKeyid \o hex_encode(authority_key_id(c)) \o L_NL ELSE <<>>)
  \o (IF Len(subject_key_id(c)) # 0
      THEN L_SubjKeyid \o hex_encode(subject_key_id(c)) \o L_NL ELSE <<>>)
  \o L_PublicKey \o get1(c.subject, "X509.Certificate.public_key")

\* operator== without the comparison of the signature algorithms
operator_eq_without_sig_algo(a, b) ==
  /\ MemoryRegion_eq(a.sig, b.sig)
  /\ a.self_signed = b.self_signed
  /\ a.issuer = b.issuer
  /\ a.subject = b.subject

\* operator== without the comparison of the subject stores
operator_eq_without_subject(a, b) ==
  /\ MemoryRegion_eq(a.sig, b.sig)
  /\ a.sig_algo = b.sig_algo
  /\ a.self_signed = b.self_signed
  /\ a.issuer = b.issuer

\* X509_Certificate::operator==
operator_eq(a, b) ==
  /\ MemoryRegion_eq(a.sig, b.sig)
  /\ a.sig_algo = b.sig_algo
  /\ a.self_signed = b.self_signed
  /\ a.issuer = b.issuer
  /\ a.subject = b.subject

\* X509_Certificate::operator<
operator_lt(a, b) ==
  IF MemoryRegion_ne(a.sig, b.sig)
  THEN (IF MemoryRegion_lt(a.sig, b.sig) THEN TRUE ELSE FALSE)
  ELSE LexLess(to_string(a), to_string(b))

\* operator!=(X509_Certificate, X509_Certificate)
operator_ne(cert1, cert2) == ~operator_eq(cert1, cert2)

(***************************************************************************)
(* Inputs: the signed-object envelopes given to the constructor.  An input *)
(* is the outer signature algorithm and signature plus the fields of the   *)
(* signed body in the order force_decode reads them.                       *)
(***************************************************************************)
AlgorithmIdentifier(oid, parameters) == [oid |-> oid, parameters |-> parameters]

\* "1.1" (registered as "RSA") and "1.2" (not registered)
Oid11 == <<49, 46, 49>>
Oid12 == <<49, 46, 50>>

Algos ==
  { AlgorithmIdentifier(Oid11, <<>>), AlgorithmIdentifier(Oid11, <<5, 0>>),
    AlgorithmIdentifier(Oid12, <<>>) }

BerObject(type_tag, class_tag, value, trailing) ==
  [type_tag |-> type_tag, class_tag |-> class_tag, value |-> value,
   trailing |-> trailing]

\* a subject public key info: a constructed SEQUENCE
GoodKey == BerObject(SEQUENCE, CONSTRUCTED, <<7>>, FALSE)

\* get_next_object at the end of the data
NoObject == BerObject(NO_OBJECT, NO_OBJECT, <<>>, FALSE)

\* the v3 extensions block [3] holding the extensions exts
ExtBlock(exts, trailing) ==
  BerObject(3, CONSTRUCTED + CONTEXT_SPECIFIC, exts, trailing)

CommonName(cn) == [key |-> "X520.CommonName", value |-> cn]

BasicConstraints(is_ca, path) ==
  Ext("X509v3.BasicConstraints", TRUE, is_ca, path, 0, <<>>, <<>>)
KeyUsage(usage) == Ext("X509v3.KeyUsage", TRUE, FALSE, <<>>, usage, <<>>, <<>>)
SubjectAltName(names) ==
  Ext("X509v3.SubjectAlternativeName", FALSE, FALSE, <<>>, 0, names, <<>>)
AuthorityKeyId(id) ==
  Ext("X509v3.AuthorityKeyIdentifier", FALSE, FALSE, <<>>, 0, <<>>, id)
Unrecognized(oid, critical, value) == Ext(oid, critical, FALSE, <<>>, 0, <<>>, value)

\* a self-signed version 1 certificate without extensions
BaseInput ==
  [ sig_algo |-> AlgorithmIdentifier(Oid11, <<>>),
    sig |-> <<0>>,
    version |-> <<>>,
    serial |-> 1,
    sig_algo_inner |-> AlgorithmIdentifier(Oid11, <<>>),
    dn_issuer |-> <<CommonName(<<97, 97>>)>>,
    start |-> <<50, 48, 49, 48>>,
    end_ |-> <<50, 48, 50, 48>>,
    dn_subject |-> <<CommonName(<<97, 97>>)>>,
    public_key |-> GoodKey,
    v2_issuer_key_id |-> <<>>,
    v2_subject_key_id |-> <<>>,
    v3_exts_data |-> NoObject,
    more_items |-> FALSE ]

\* the version field: absent, or any value up to MaxVersion
Versions == {<<>>} \cup {<<v>> : v \in 0..MaxVersion}

\* nothing, or one element of S
Opt(S) == {<<>>} \cup {<<x>> : x \in S}

BasicConstraintsChoices ==
  {BasicConstraints(FALSE, <<>>), BasicConstraints(TRUE, <<>>)}
    \cup {BasicConstraints(TRUE, <<p>>) : p \in 0..MaxPathLimit}

KeyUsageChoices ==
  {KeyUsage(u) : u \in {0, KEY_CERT_SIGN, DIGITAL_SIGNATURE, KEY_CERT_SIGN + CRL_SIGN,
                        DIGITAL_SIGNATURE + KEY_ENCIPHERMENT}}

UnrecognizedChoices ==
  {Unrecognized(oid, critical, <<1, 171>>) : oid \in UnknownOIDs, critical \in BOOLEAN}

\* the extension lists: at most one extension of each kind
ExtLists ==
  {bc \o ku \o un : bc \in Opt(BasicConstraintsChoices), ku \in Opt(KeyUsageChoices),
                    un \in Opt(UnrecognizedChoices)}

\* what follows the unique identifiers: nothing, an extensions block, or an
\* object with another tag or class
ExtData ==
  {NoObject}
    \cup {ExtBlock(exts, trailing) : exts \in ExtLists, trailing \in BOOLEAN}
    \cup {BerObject(3, CONTEXT_SPECIFIC, <<>>, FALSE),
          BerObject(4, CONSTRUCTED + CONTEXT_SPECIFIC, <<>>, FALSE)}

PublicKeys ==
  {GoodKey, BerObject(BIT_STRING, 0, <<7>>, FALSE), BerObject(SEQUENCE, 0, <<7>>, FALSE)}

\* inputs that vary the structure of the signed body
StructInputs ==
  {[BaseInput EXCEPT !.version = v, !.sig_algo_inner = inner, !.public_key = pk,
                     !.v3_exts_data = xm[1], !.more_items = xm[2]] :
     v \in Versions, inner \in Algos, pk \in PublicKeys,
     xm \in {y \in ExtData \X BOOLEAN : y[1] # NoObject \/ ~y[2]}}

\* the entries a certificate carries as DNS names or common names
CertNames == Strs({Star, Dot, 97}, MaxCnLen)

\* "*.a", and "aa" before "*.a"
FewNameLists == {<<>>, <<<<Star, Dot, 97>>>>, <<<<97, 97>>, <<Star, Dot, 97>>>>}

NameListPairs ==
  {<<dns, cn>> : dns \in Opt(CertNames), cn \in FewNameLists}
    \cup {<<dns, cn>> : dns \in FewNameLists, cn \in Opt(CertNames)}

\* inputs that vary the DNS names (subject alternative name extension) and
\* the common names (subject DN) of a version 3 certificate
NameInputs ==
  {[BaseInput EXCEPT
      !.version = <<2>>,
      !.dn_subject = [i \in 1..Len(p[2]) |-> CommonName(p[2][i])],
      !.v3_exts_data = ExtBlock(IF p[1] = <<>> THEN <<>> ELSE <<SubjectAltName(p[1])>>,
                                FALSE)] :
     p \in NameListPairs}

CertInputs == StructInputs \cup NameInputs

\* the signature values: byte strings of up to MaxSigLen bytes
Sigs == Strs({0, 200}, MaxSigLen)

WithExts(in, version, exts) ==
  [in EXCEPT !.version = version, !.v3_exts_data = ExtBlock(exts, FALSE)]

\* signed bodies (with the outer signature algorithm) that differ in what
\* equality, ordering and rendering read
PairBodies ==
  { BaseInput,
    [BaseInput EXCEPT !.version = <<0>>],
    [BaseInput EXCEPT !.serial = 2],
    [BaseInput EXCEPT !.sig_algo = AlgorithmIdentifier(Oid11, <<5, 0>>),
                      !.sig_algo_inner = AlgorithmIdentifier(Oid11, <<5, 0>>)],
    [BaseInput EXCEPT !.sig_algo = AlgorithmIdentifier(Oid12, <<>>),
                      !.sig_algo_inner = AlgorithmIdentifier(Oid12, <<>>)],
    [BaseInput EXCEPT !.dn_issuer = <<CommonName(<<97>>)>>],
    WithExts(BaseInput, <<>>, <<BasicConstraints(TRUE, <<>>)>>),
    WithExts(BaseInput, <<2>>, <<>>),
    WithExts(BaseInput, <<2>>, <<KeyUsage(KEY_CERT_SIGN + DIGITAL_SIGNATURE)>>),
    WithExts(BaseInput, <<2>>, <<AuthorityKeyId(<<18>>)>>),
    WithExts(BaseInput, <<2>>, <<SubjectAltName(<<<<97, 46, 97>>>>)>>) }
    \cup {WithExts(BaseInput, <<2>>, <<BasicConstraints(TRUE, p)>>) :
            p \in Opt(0..MaxPathLimit)}

\* two signatures, one a proper prefix of the other, for every signed body
FewSigs == {<<0>>, <<0, 200>>}

\* every signed body under the two signatures, and one body under every
\* signature
PairInputs ==
  {[b EXCEPT !.sig = sg] : b \in PairBodies, sg \in FewSigs}
    \cup {[BaseInput EXCEPT !.sig = sg] : sg \in Sigs}

\* the names asked of matches_dns_name
QueryNames == Strs({Dot, 97}, MaxNameLen) \cup CertNames

(***************************************************************************)
(* The state machine.  certs[s] is the certificate object of slot s,       *)
(* given[s] the input it was constructed from, result what the call in     *)
(* progress has returned to the (single-threaded) caller, NoResult when no *)
(* call is in progress.                                                    *)
(***************************************************************************)
Slots == {"a", "b"}

NoCert ==
  Cert("none", AlgorithmIdentifier(<<>>, <<>>), <<>>, FALSE, EmptyStore, EmptyStore)

Result(op, a, b, name, flag, num, text) ==
  [op |-> op, a |-> a, b |-> b, name |-> name, flag |-> flag, num |-> num,
   text |-> text]

NoResult == Result("none", "a", "a", <<>>, FALSE, 0, <<>>)

\* the two buffers of a swap
Regions == {"x", "y"}

\* the arrays given to set and append
Datas == Strs({7}, MaxData)

\* the last call on a buffer: the operation, the buffer, the size asked
\* for, and the buffer as it was before the call
MemCall(op, r, n, before) == [op |-> op, r |-> r, n |-> n, before |-> before]

NoCall == MemCall("none", "x", 0, EmptyRegion)

Init ==
  /\ certs = [s \in Slots |-> NoCert]
  /\ given = [s \in Slots |-> BaseInput]
  /\ result = NoResult
  /\ regions = [r \in Regions |-> EmptyRegion]
  /\ memcall = NoCall

\* X509_Certificate::X509_Certificate: a certificate object is constructed in
\* slot s from one of the inputs
Construct(s, inputs) ==
  /\ result = NoResult
  /\ certs[s].status = "none"
  /\ \E in \in inputs :
       /\ certs' = [certs EXCEPT ![s] = force_decode(in)]
       /\ given' = [given EXCEPT ![s] = in]
  /\ UNCHANGED <<result, regions, memcall>>

\* a query of the constructed certificate of slot s
Query(s, r) ==
  /\ result = NoResult
  /\ certs[s].status = "ok"
  /\ result' = r
  /\ UNCHANGED <<certs, given, regions, memcall>>

X509Version(s) ==
  Query(s, Result("x509_version", s, s, <<>>, FALSE, x509_version(certs[s]), <<>>))

IsCACert(s) ==
  Query(s, Result("is_CA_cert", s, s, <<>>, is_CA_cert(certs[s]), 0, <<>>))

Constraints(s) ==
  Query(s, Result("constraints", s, s, <<>>, FALSE, constraints(certs[s]), <<>>))

PathLimit(s) ==
  Query(s, Result("path_limit", s, s, <<>>, FALSE, path_limit(certs[s]), <<>>))

MatchesDnsName(s) ==
  /\ result = NoResult
  /\ certs[s].status = "ok"
  /\ \E name \in QueryNames :
       Query(s, Result("matches_dns_name", s, s, name,
                       matches_dns_name(certs[s], name), 0, <<>>))

\* subject_info(what) for a key no friendly name stands for: the values
\* stored under it, joined
SubjectInfo(s, what) ==
  Query(s, Result("subject_info", s, s, <<>>, FALSE, Len(subject_info(certs[s], what)),
                  Concat(subject_info(certs[s], what))))

Render(s) ==
  Query(s, Result("to_string", s, s, <<>>, FALSE, 0, to_string(certs[s])))

Equal(s, t) ==
  /\ certs[t].status = "ok"
  /\ Query(s, Result("operator==", s, t, <<>>, operator_eq(certs[s], certs[t]), 0, <<>>))

NotEqual(s, t) ==
  /\ certs[t].status = "ok"
  /\ Query(s, Result("operator!=", s, t, <<>>, operator_ne(certs[s], certs[t]), 0, <<>>))

Less(s, t) ==
  /\ certs[t].status = "ok"
  /\ Query(s, Result("operator<", s, t, <<>>, operator_lt(certs[s], certs[t]), 0, <<>>))

\* the caller takes the returned value; the certificate is as it was
Return ==
  /\ result # NoResult
  /\ result' = NoResult
  /\ UNCHANGED <<certs, given, regions, memcall>>

\* one certificate: construction from any input, then the predicates
Next ==
  \/ Construct("a", CertInputs)
  \/ X509Version("a")
  \/ IsCACert("a")
  \/ Constraints("a")
  \/ PathLimit("a")
  \/ MatchesDnsName("a")
  \/ \E what \in UnknownOIDs : SubjectInfo("a", what)
  \/ Return

Spec == Init /\ [][Next]_vars

\* two certificates: construction of each, then comparison and rendering
NextPair ==
  \/ Construct("a", PairInputs)
  \/ Construct("b", PairInputs)
  \/ Equal("a", "b")
  \/ NotEqual("a", "b")
  \/ Less("a", "b")
  \/ Render("a")
  \/ Return

SpecPair == Init /\ [][NextPair]_vars

\* a call on buffer r that leaves it as after
MemStep(op, r, n, after) ==
  /\ after.used <= MaxSize
  /\ regions' = [regions EXCEPT ![r] = after]
  /\ memcall' = MemCall(op, r, n, regions[r])
  /\ UNCHANGED <<certs, given, result>>

Resize(r) == \E n \in 0..MaxSize : MemStep("resize", r, n, resize(regions[r], n))

Set(r) == \E in \in Datas : MemStep("set", r, Len(in), set(regions[r], in))

AppendData(r) ==
  \E data \in Datas : MemStep("append", r, Len(data), append(regions[r], data))

\* append(other), for another buffer
AppendRegion(r, o) ==
  /\ r # o
  /\ MemStep("append", r, regions[o].used, append(regions[r], contents(regions[o])))

Clear(r) == MemStep("clear", r, 0, clear(regions[r]))

\* MemoryRegion<T>::swap
Swap(r, o) ==
  /\ r # o
  /\ regions' = [regions EXCEPT ![r] = regions[o], ![o] = regions[r]]
  /\ memcall' = MemCall("swap", r, 0, regions[r])
  /\ UNCHANGED <<certs, given, result>>

\* two buffers under resize, set, append, clear and swap
NextMem ==
  \/ \E r \in Regions : Resize(r)
  \/ \E r \in Regions : Set(r)
  \/ \E r \in Regions : AppendData(r)
  \/ AppendRegion("x", "y")
  \/ \E r \in Regions : Clear(r)
  \/ Swap("x", "y")

SpecMem == Init /\ [][NextMem]_vars

(***************************************************************************)
(* What an input says, read off the input itself                           *)
(***************************************************************************)
\* the extensions the input carries (none unless the block [3] is there)
InputExts(in) ==
  IF in.v3_exts_data.type_tag = 3
     /\ in.v3_exts_data.class_tag = CONSTRUCTED + CONTEXT_SPECIFIC
  THEN in.v3_exts_data.value ELSE <<>>

\* the extensions of the input with the given OID
ExtsOf(in, oid) ==
  {InputExts(in)[i] : i \in {j \in 1..Len(InputExts(in)) : InputExts(in)[j].oid = oid}}

\* the key usage value u has the bit
HasUsage(u, bit) == (u \div bit) % 2 = 1

\* the version field of the input, 0 when absent
VersionField(in) == IF Len(in.version) = 0 THEN 0 ELSE in.version[1]

\* Basic Constraints says CA, and Key Usage is absent or allows signing
InputIsCA(in) ==
  /\ \E e \in ExtsOf(in, "X509v3.BasicConstraints") : e.is_ca
  /\ \/ ExtsOf(in, "X509v3.KeyUsage") = {}
     \/ \E e \in ExtsOf(in, "X509v3.KeyUsage") : HasUsage(e.usage, KEY_CERT_SIGN)

\* the input is well formed apart from its version field
WellFormedBody(in) ==
  /\ in.sig_algo = in.sig_algo_inner
  /\ in.public_key.type_tag = SEQUENCE /\ in.public_key.class_tag = CONSTRUCTED
  /\ \/ in.v3_exts_data.type_tag = NO_OBJECT
     \/ /\ in.v3_exts_data.type_tag = 3
        /\ in.v3_exts_data.class_tag = CONSTRUCTED + CONTEXT_SPECIFIC
        /\ ~in.v3_exts_data.trailing
  /\ ~in.more_items

(***************************************************************************)
(* Claims                                                                  *)
(***************************************************************************)
\* C1: is_CA_cert() of a decoded certificate is true exactly when the stored
\* Basic Constraints CA flag is set and the Key Usage value is the "none
\* recorded" sentinel or includes certificate signing; read off the input, it
\* is false without Basic Constraints, with the CA flag false, and with the
\* CA flag true when a Key Usage extension lacks certificate signing.
C1_IsCACert ==
  result.op = "is_CA_cert" =>
    LET c == certs[result.a]
        in == given[result.a]
        flag == get1_u32bit(c.subject, "X509v3.BasicConstraints.is_ca", 0)
        usage == get1_u32bit(c.subject, "X509v3.KeyUsage", NO_CONSTRAINTS)
    IN /\ result.flag =
            (flag # 0 /\ (usage = NO_CONSTRAINTS \/ HasUsage(usage, KEY_CERT_SIGN)))
       /\ result.flag = InputIsCA(in)
       /\ (usage = NO_CONSTRAINTS) = (ExtsOf(in, "X509v3.KeyUsage") = {})

\* C1 witness: CA flag set, a Key Usage extension without any bit: not a CA
C1_Witness ==
  /\ result.op = "is_CA_cert"
  /\ ~result.flag
  /\ \E e \in ExtsOf(given["a"], "X509v3.BasicConstraints") : e.is_ca
  /\ \E e \in ExtsOf(given["a"], "X509v3.KeyUsage") : e.usage = 0

\* C2: after a successful decode, path_limit() is the path length the
\* extensions recorded when there is one; without one it is 0 for a version 3
\* CA (version field 2), NO_CERT_PATH_LIMIT for a version 1 or 2 CA (version
\* field below 2), and 0 for a certificate that is not a CA.
C2_PathLimit ==
  result.op = "path_limit" =>
    LET in == given[result.a]
        recorded == {e.path[1] : e \in {x \in ExtsOf(in, "X509v3.BasicConstraints") :
                                          x.path # <<>>}}
    IN IF recorded # {} THEN result.num \in recorded
       ELSE IF InputIsCA(in)
            THEN result.num = (IF VersionField(in) < 2 THEN NO_CERT_PATH_LIMIT ELSE 0)
       ELSE result.num = 0

\* C2 witness: a version 1 CA without a recorded path length reports no limit
C2_Witness ==
  /\ result.op = "path_limit"
  /\ InputIsCA(given["a"])
  /\ VersionField(given["a"]) = 0
  /\ \A e \in ExtsOf(given["a"], "X509v3.BasicConstraints") : e.path = <<>>
  /\ result.num = NO_CERT_PATH_LIMIT

\* C3: on an otherwise well-formed signed body, construction succeeds for a
\* version field of 0, 1 or 2 (0 when absent) and x509_version() is then the
\* field plus 1; for any other value it fails with a Decoding Error and
\* there is no certificate.
C3_Version ==
  \A s \in Slots :
    (certs[s].status # "none" /\ WellFormedBody(given[s])) =>
      /\ VersionField(given[s]) \in {0, 1, 2} =>
            /\ certs[s].status = "ok"
            /\ x509_version(certs[s]) = VersionField(given[s]) + 1
            /\ (result.op = "x509_version" /\ result.a = s) =>
                  result.num = VersionField(given[s]) + 1
      /\ VersionField(given[s]) \notin {0, 1, 2} => certs[s].status = "Decoding_Error"

\* C3 witness: a well-formed body with version field 3 is refused
C3_Witness ==
  /\ WellFormedBody(given["a"])
  /\ VersionField(given["a"]) = 3
  /\ certs["a"].status = "Decoding_Error"

\* C4: when the outer signature algorithm differs from the one inside the
\* signed body, construction fails with a Decoding Error before anything is
\* written to the subject or issuer store; no certificate has differing
\* outer and inner signature algorithms.
C4_AlgorithmMismatch ==
  \A s \in Slots :
    /\ (certs[s].status # "none" /\ given[s].sig_algo # given[s].sig_algo_inner) =>
         /\ certs[s].status = "Decoding_Error"
         /\ certs[s].subject = EmptyStore
         /\ certs[s].issuer = EmptyStore
    /\ certs[s].status = "ok" =>
         /\ given[s].sig_algo = given[s].sig_algo_inner
         /\ certs[s].sig_algo = given[s].sig_algo_inner

\* C4 witness: same OID, different parameters, a valid version: refused
C4_Witness ==
  /\ certs["a"].status = "Decoding_Error"
  /\ VersionField(given["a"]) = 2
  /\ given["a"].sig_algo.oid = given["a"].sig_algo_inner.oid
  /\ given["a"].sig_algo.parameters # given["a"].sig_algo_inner.parameters
  /\ WellFormedBody([given["a"] EXCEPT !.sig_algo_inner = given["a"].sig_algo])

\* the DNS names and the common names the input gives the subject
InputDNS(in) ==
  UNION {{e.names[i] : i \in 1..Len(e.names)} :
           e \in ExtsOf(in, "X509v3.SubjectAlternativeName")}
InputCN(in) ==
  {in.dn_subject[i].value :
     i \in {j \in 1..Len(in.dn_subject) : in.dn_subject[j].key = "X520.CommonName"}}

\* the last Len(e) - 1 characters of name are e without its first character
EndsWithTail(name, e) ==
  \A k \in 1..(Len(e) - 1) : name[Len(name) - (Len(e) - 1) + k] = e[k + 1]

\* entry e matches name as the claim C5 has it: any entry starting with "*."
ClaimedEntryMatch(name, e) ==
  \/ e = name
  \/ /\ Len(e) >= 2 /\ e[1] = Star /\ e[2] = Dot
     /\ Len(name) > Len(e)
     /\ EndsWithTail(name, e)

\* entry e matches name when only entries longer than "*." are wildcards
EntryMatch(name, e) ==
  \/ e = name
  \/ /\ Len(e) > 2 /\ e[1] = Star /\ e[2] = Dot
     /\ Len(name) > Len(e)
     /\ EndsWithTail(name, e)

\* name is one non-empty label without '.' followed by e without its '*'
SingleLabelMatch(name, e) ==
  /\ Len(e) >= 2 /\ e[1] = Star /\ e[2] = Dot
  /\ Len(name) > Len(e) - 1
  /\ EndsWithTail(name, e)
  /\ \A i \in 1..(Len(name) - (Len(e) - 1)) : name[i] # Dot

\* C5 as claimed: matches_dns_name(name) is true exactly when name is not
\* empty and some DNS or common name entry e equals name, or starts with
\* "*.", is shorter than name and, without its '*', ends name; this for
\* every entry starting with "*.", the entry "*." included.
C5_AsClaimed ==
  result.op = "matches_dns_name" =>
    result.flag =
      (/\ result.name # <<>>
       /\ \E e \in InputDNS(given[result.a]) \cup InputCN(given[result.a]) :
            ClaimedEntryMatch(result.name, e))

\* C5 amended: as claimed, for the entries starting with "*." that are longer
\* than two characters; the entry "*." matches only the name "*.".
C5_Amended ==
  result.op = "matches_dns_name" =>
    result.flag =
      (/\ result.name # <<>>
       /\ \E e \in InputDNS(given[result.a]) \cup InputCN(given[result.a]) :
            EntryMatch(result.name, e))

\* C5 witness: no DNS entry matches and a wildcard common name does
C5_Witness ==
  /\ result.op = "matches_dns_name"
  /\ result.flag
  /\ InputDNS(given["a"]) # {}
  /\ \A e \in InputDNS(given["a"]) : ~EntryMatch(result.name, e)
  /\ \E e \in InputCN(given["a"]) : e # result.name /\ EntryMatch(result.name, e)

\* C6: a wildcard entry "*.B" matches a name only when the name is one
\* non-empty label without '.' followed by ".B": every match is an exact
\* match or such a single-level wildcard match.
C6_SingleLevel ==
  (result.op = "matches_dns_name" /\ result.flag) =>
    \E e \in InputDNS(given[result.a]) \cup InputCN(given[result.a]) :
      e = result.name \/ SingleLabelMatch(result.name, e)

(***************************************************************************)
(* Two certificates                                                        *)
(***************************************************************************)
\* s is before t: a proper prefix of it, or smaller at the first difference
LexBefore(s, t) ==
  \E k \in 0..Min(Len(s), Len(t)) :
    /\ \A i \in 1..k : s[i] = t[i]
    /\ k < Len(t)
    /\ k < Len(s) => s[k + 1] < t[k + 1]

\* every certificate a PairInputs input decodes to
PoolCerts == {force_decode(in) : in \in PairInputs}

\* neither is before the other
Unordered(x, y) == ~operator_lt(x, y) /\ ~operator_lt(y, x)

\* C7: a == b exactly when the signatures, the signature algorithms, the
\* self-signed flags, the issuer stores and the subject stores are equal;
\* a != b is its negation; certificates decoded from the same input are
\* equal.
C7_Equality ==
  LET a == certs[result.a]
      b == certs[result.b]
      same == /\ a.sig = b.sig
              /\ a.sig_algo.oid = b.sig_algo.oid
              /\ a.sig_algo.parameters = b.sig_algo.parameters
              /\ a.self_signed = b.self_signed
              /\ \A k \in Keys : a.issuer[k] = b.issuer[k]
              /\ \A k \in Keys : a.subject[k] = b.subject[k]
  IN /\ result.op = "operator==" =>
          /\ result.flag = same
          /\ given[result.a] = given[result.b] => result.flag
     /\ result.op = "operator!=" => result.flag = ~same

\* C7 witness: two certificates from the same input compare equal
C7_Witness ==
  /\ result.op = "operator=="
  /\ result.flag
  /\ certs["b"].status = "ok"
  /\ given["a"] = given["b"]

\* C8: with different signatures, a < b exactly when a's signature is before
\* b's in byte-lexicographic order; with equal signatures, exactly when a's
\* rendered text is before b's; the relation is a strict weak order.
C8_Ordering ==
  result.op = "operator<" =>
    LET a == certs[result.a]
        b == certs[result.b]
    IN /\ a.sig # b.sig => result.flag = LexBefore(a.sig, b.sig)
       /\ a.sig = b.sig => result.flag = LexBefore(to_string(a), to_string(b))
       /\ ~operator_lt(a, a)
       /\ ~(operator_lt(a, b) /\ operator_lt(b, a))
       /\ \A c \in PoolCerts :
            /\ (operator_lt(a, b) /\ operator_lt(b, c)) => operator_lt(a, c)
            /\ (Unordered(a, b) /\ Unordered(b, c)) => Unordered(a, c)

\* C8 witness: equal signatures, the rendered texts decide
C8_Witness ==
  /\ result.op = "operator<"
  /\ result.flag
  /\ certs["a"].sig = certs["b"].sig
  /\ Len(certs["a"].sig) = 2

\* C9 (rendering respects equality): the text to_string returns for a is
\* the text of every certificate equal to a.
C9_SameText ==
  (result.op = "to_string" /\ certs["b"].status = "ok"
     /\ operator_eq(certs[result.a], certs["b"])) =>
    result.text = to_string(certs["b"])

\* C9: equal certificates render to the same text, and to_string changes
\* no state of the certificate.
C9_Rendering ==
  /\ []C9_SameText
  /\ [][result'.op = "to_string" => (certs' = certs /\ given' = given)]_vars

\* C9 witness: a rendered, b equal to a and decoded from another input
C9_Witness ==
  /\ result.op = "to_string"
  /\ certs["b"].status = "ok"
  /\ operator_eq(certs["a"], certs["b"])
  /\ given["a"] # given["b"]

\* the unrecognized extensions of the input
InputUnrecognized(in) ==
  {InputExts(in)[i] : i \in {j \in 1..Len(InputExts(in)) : InputExts(in)[j].oid \in UnknownOIDs}}

C11_Resize ==
  LET m == regions[memcall.r]
      old == memcall.before
  IN /\ memcall.op = "resize" =>
          /\ m.used = memcall.n
          /\ \A i \in 1..Min(old.used, memcall.n) : m.buf[i] = old.buf[i]
          /\ \A i \in (old.used + 1)..memcall.n : m.buf[i] = 0
     /\ memcall.op = "clear" => m.used = 0

\* C11 witness: a buffer that was cut below non-zero elements, without
\* being reallocated, has grown again
C11_Witness ==
  /\ memcall.op = "resize"
  /\ memcall.n > memcall.before.used
  /\ memcall.n <= memcall.before.allocated
  /\ memcall.before.used > 0
  /\ regions[memcall.r].buf[1] # 0

\* the input passes every test of force_decode before the position after the
\* unique identifiers
ReachesExtensions(in) ==
  /\ VersionField(in) <= 2
  /\ in.sig_algo = in.sig_algo_inner
  /\ in.public_key.type_tag = SEQUENCE /\ in.public_key.class_tag = CONSTRUCTED

\* the keys only extensions write
ExtensionKeys ==
  {"DNS", "IP", "URI", "RFC822", "X509v3.BasicConstraints.is_ca",
   "X509v3.BasicConstraints.path_constraint", "X509v3.KeyUsage",
   "X509v3.ExtendedKeyUsage", "X509v3.CertificatePolicies",
   "X509v3.SubjectKeyIdentifier", "X509v3.AuthorityKeyIdentifier"} \cup UnknownOIDs

\* what the extensions of the input say is found in the certificate
ExtensionsApplied(c, in) ==
  /\ (\E e \in ExtsOf(in, "X509v3.BasicConstraints") : e.is_ca)
       = (get(c.subject, "X509v3.BasicConstraints.is_ca") = <<U32ToStr(1)>>)
  /\ \A e \in ExtsOf(in, "X509v3.KeyUsage") :
       get(c.subject, "X509v3.KeyUsage") = <<U32ToStr(e.usage)>>
  /\ \A e \in InputUnrecognized(in) : Len(get(c.subject, e.oid)) = 2

\* C12: after the unique identifiers, an input with nothing left decodes
\* with no extension applied; a constructed context-specific [3] object is
\* given to the extension processing and must be consumed whole; an object
\* with another tag or class is a Bad Tag error; an item after the
\* extensions block is a Decoding Error; and a failed decode produces no
\* certificate.
C12_ExtensionsPosition ==
  \A s \in Slots :
    LET c == certs[s]
        in == given[s]
        obj == in.v3_exts_data
        block == obj.type_tag = 3 /\ obj.class_tag = CONSTRUCTED + CONTEXT_SPECIFIC
    IN /\ (c.status # "none" /\ ReachesExtensions(in)) =>
            /\ obj.type_tag = NO_OBJECT =>
                 /\ c.status = "ok"
                 /\ \A k \in ExtensionKeys : c.subject[k] = <<>> /\ c.issuer[k] = <<>>
            /\ (block /\ obj.trailing) => c.status = "Decoding_Error"
            /\ (block /\ ~obj.trailing /\ in.more_items) => c.status = "Decoding_Error"
            /\ (block /\ ~obj.trailing /\ ~in.more_items) =>
                 c.status = "ok" /\ ExtensionsApplied(c, in)
            /\ (~block /\ obj.type_tag # NO_OBJECT) => c.status = "BER_Bad_Tag"
       /\ (c.status \notin {"none", "ok"}) => (result = NoResult \/ result.a # s)

\* C12 witness: an object of type 3 that is not constructed was refused
C12_Witness ==
  /\ ReachesExtensions(given["a"])
  /\ given["a"].v3_exts_data.type_tag = 3
  /\ given["a"].v3_exts_data.class_tag # CONSTRUCTED + CONTEXT_SPECIFIC
  /\ certs["a"].status = "BER_Bad_Tag"

\* C13: of a < b, b < a and a == b exactly one holds for any two
\* certificates; two certificates that are not equal are ordered.
C13_Trichotomy ==
  result.op = "operator<" =>
    LET a == certs[result.a]
        b == certs[result.b]
        lt == result.flag
        gt == operator_lt(b, a)
        eq == operator_eq(a, b)
    IN /\ lt \/ gt \/ eq
       /\ ~(lt /\ gt) /\ ~(lt /\ eq) /\ ~(gt /\ eq)

====
